---------------------------- MODULE Spec2Model ----------------------------
(***************************************************************************)
(* Heart-hands gesture recognition: the collection loop of                 *)
(* collect_data.py (auto-capture state machine, immediate capture, CSV     *)
(* dataset) and the inference loop of detect_realtime.py (prediction       *)
(* window, smoothed decision), with the feature extraction both share.     *)
(*                                                                         *)
(* Units.  Landmark coordinates are integers in thousandths of the image   *)
(* size.  A normalized coordinate v = d / scale is kept exactly as         *)
(* <<sign(d), n, m>> with n/m the reduced fraction v^2.  Times are whole   *)
(* seconds.  Probabilities are hundredths, and the mean of the window is   *)
(* compared with the threshold exactly (sum against threshold * length).   *)
(***************************************************************************)
EXTENDS Integers, Sequences, FiniteSets, TLC

(***************************************************************************)
(* Bounds of the model.                                                    *)
(***************************************************************************)
\* the clock of the collection loop stops advancing at MaxTime seconds
MaxTime == 6
\* at most MaxDt seconds pass between two frames
MaxDt == 2
\* at most MaxLag seconds pass between the two clock reads of one frame
MaxLag == 1
\* no row is requested once the session has written MaxRows rows
MaxRows == 1
\* at most MaxStreak probabilities are remembered since the last gap
MaxStreak == 11
\* extract_features is applied to lists of at most MaxHands hands
MaxHands == 3
\* normalize_landmarks is applied to hands enlarged at most MaxFactor times
MaxFactor == 3

(***************************************************************************)
(* Program constants.                                                      *)
(***************************************************************************)
\* landmarks of one hand (21 landmarks * 2 coords * 2 hands = 84 features)
NumLandmarks == 21
\* auto-capture: two hands are required for 3 seconds
HoldSeconds == 3
SMOOTHING_WINDOW == 10
\* 0.80, in hundredths
HEART_THRESHOLD == 80
\* scale floor 1e-6: 1 / (1e-6)^2 per squared coordinate unit of 1e-3
InvFloorSq == 1000000

\* Python's None for a feature vector (never an empty vector) and for a time
None == <<>>
NoTime == -1

(***************************************************************************)
(* Arithmetic helpers.                                                     *)
(***************************************************************************)
Min(a, b) == IF a <= b THEN a ELSE b
Max(a, b) == IF a >= b THEN a ELSE b

RECURSIVE Gcd(_, _)
Gcd(a, b) == IF b = 0 THEN a ELSE Gcd(b, a % b)

Sign(d) == IF d > 0 THEN 1 ELSE IF d < 0 THEN -1 ELSE 0

RECURSIVE SumSeq(_)
SumSeq(s) == IF s = <<>> THEN 0 ELSE Head(s) + SumSeq(Tail(s))

RECURSIVE Flatten(_)
Flatten(ss) == IF ss = <<>> THEN <<>> ELSE Head(ss) \o Flatten(Tail(ss))

\* d / sqrt(num / den) for den > 0, num > 0, as <<sign, n, m>> with n/m = v^2
Quot(d, num, den) ==
    LET n == d * d * den
        g == Gcd(n, num)
    IN  IF d = 0 THEN <<0, 0, 1>> ELSE <<Sign(d), n \div g, num \div g>>

(***************************************************************************)
(* normalize_landmarks: translate the wrist (landmark 0) to the origin and *)
(* divide by the wrist to middle-finger-MCP (landmark 9) distance, floored *)
(* at 1e-6; the result is flattened x0, y0, x1, y1, ...                    *)
(***************************************************************************)
\* mutant: the scale has no floor, and a zero scale divides by zero
\* (a value with denominator 0)
normalize_landmarks_NoFloor(hand_landmarks) ==
    LET wrist      == hand_landmarks[1]
        middle_mcp == hand_landmarks[10]
        dx         == middle_mcp[1] - wrist[1]
        dy         == middle_mcp[2] - wrist[2]
        sq         == dx * dx + dy * dy
        Div(d)     == IF sq = 0 THEN << Sign(d), 1, 0 >> ELSE Quot(d, sq, 1)
    IN  Flatten([i \in 1..Len(hand_landmarks) |->
                   << Div(hand_landmarks[i][1] - wrist[1]),
                      Div(hand_landmarks[i][2] - wrist[2]) >>])

\* mutant: the wrist is moved to the origin but nothing is divided by the scale
normalize_landmarks_Unscaled(hand_landmarks) ==
    LET wrist == hand_landmarks[1]
    IN  Flatten([i \in 1..Len(hand_landmarks) |->
                   << Quot(hand_landmarks[i][1] - wrist[1], 1, 1),
                      Quot(hand_landmarks[i][2] - wrist[2], 1, 1) >>])

normalize_landmarks(hand_landmarks) ==
    LET wrist      == hand_landmarks[1]
        middle_mcp == hand_landmarks[10]
        dx         == middle_mcp[1] - wrist[1]
        dy         == middle_mcp[2] - wrist[2]
        sq         == dx * dx + dy * dy
        \* scale < 1e-6 exactly when the squared distance is 0 on this grid
        scale_num  == IF sq = 0 THEN 1 ELSE sq
        scale_den  == IF sq = 0 THEN InvFloorSq ELSE 1
    IN  Flatten([i \in 1..Len(hand_landmarks) |->
                   << Quot(hand_landmarks[i][1] - wrist[1], scale_num, scale_den),
                      Quot(hand_landmarks[i][2] - wrist[2], scale_num, scale_den) >>])

(***************************************************************************)
(* extract_features: None below two hands; otherwise every zipped hand is  *)
(* normalized, the list is stably sorted "Left" first, and the normalized  *)
(* hands are concatenated.                                                 *)
(***************************************************************************)
IsLeft(h) == h[1] = "Left"
NotLeft(h) == h[1] # "Left"

\* mutant: the hands stay in detection order
extract_features_NoSort(hand_landmarks_list, handedness_list) ==
    IF Len(hand_landmarks_list) < 2
    THEN None
    ELSE LET n         == Min(Len(hand_landmarks_list), Len(handedness_list))
             hand_data == [i \in 1..n |->
                             << handedness_list[i][1],
                                normalize_landmarks(hand_landmarks_list[i]) >>]
         IN  Flatten([i \in 1..Len(hand_data) |-> hand_data[i][2]])

\* mutant: an unstable sort, the hands that are not "Left" come out reversed
extract_features_Unstable(hand_landmarks_list, handedness_list) ==
    IF Len(hand_landmarks_list) < 2
    THEN None
    ELSE LET n         == Min(Len(hand_landmarks_list), Len(handedness_list))
             hand_data == [i \in 1..n |->
                             << handedness_list[i][1],
                                normalize_landmarks(hand_landmarks_list[i]) >>]
             others    == SelectSeq(hand_data, NotLeft)
             sorted    == SelectSeq(hand_data, IsLeft)
                            \o [i \in 1..Len(others) |-> others[Len(others) + 1 - i]]
         IN  Flatten([i \in 1..Len(sorted) |-> sorted[i][2]])

extract_features(hand_landmarks_list, handedness_list) ==
    IF Len(hand_landmarks_list) < 2
    THEN None
    ELSE LET n         == Min(Len(hand_landmarks_list), Len(handedness_list))
             hand_data == [i \in 1..n |->
                             << handedness_list[i][1],
                                normalize_landmarks(hand_landmarks_list[i]) >>]
             sorted    == SelectSeq(hand_data, IsLeft) \o SelectSeq(hand_data, NotLeft)
         IN  Flatten([i \in 1..Len(sorted) |-> sorted[i][2]])

(***************************************************************************)
(* detect_realtime.py carries its own copies of the two functions          *)
(* (normalize_landmarks at lines 46-71, extract_features at lines          *)
(* 102-125); the inference loop calls these.                               *)
(***************************************************************************)
detect_realtime_normalize_landmarks(hand_landmarks) ==
    LET wrist      == hand_landmarks[1]
        middle_mcp == hand_landmarks[10]
        dx         == middle_mcp[1] - wrist[1]
        dy         == middle_mcp[2] - wrist[2]
        sq         == dx * dx + dy * dy
        scale_num  == IF sq = 0 THEN 1 ELSE sq
        scale_den  == IF sq = 0 THEN InvFloorSq ELSE 1
    IN  Flatten([i \in 1..Len(hand_landmarks) |->
                   << Quot(hand_landmarks[i][1] - wrist[1], scale_num, scale_den),
                      Quot(hand_landmarks[i][2] - wrist[2], scale_num, scale_den) >>])

\* mutant: the copy sorts "Left" last
detect_realtime_extract_features_LeftLast(hand_landmarks_list, handedness_list) ==
    IF Len(hand_landmarks_list) < 2
    THEN None
    ELSE LET n         == Min(Len(hand_landmarks_list), Len(handedness_list))
             hand_data == [i \in 1..n |->
                             << handedness_list[i][1],
                                detect_realtime_normalize_landmarks(hand_landmarks_list[i]) >>]
             sorted    == SelectSeq(hand_data, NotLeft) \o SelectSeq(hand_data, IsLeft)
         IN  Flatten([i \in 1..Len(sorted) |-> sorted[i][2]])

detect_realtime_extract_features(hand_landmarks_list, handedness_list) ==
    IF Len(hand_landmarks_list) < 2
    THEN None
    ELSE LET n         == Min(Len(hand_landmarks_list), Len(handedness_list))
             hand_data == [i \in 1..n |->
                             << handedness_list[i][1],
                                detect_realtime_normalize_landmarks(hand_landmarks_list[i]) >>]
             sorted    == SelectSeq(hand_data, IsLeft) \o SelectSeq(hand_data, NotLeft)
         IN  Flatten([i \in 1..Len(sorted) |-> sorted[i][2]])

(***************************************************************************)
(* The detector's results the loops are fed with.  A hand is 21 landmarks  *)
(* placed from a wrist position, a size and a finger spread.               *)
(***************************************************************************)
MakeHand(wx, wy, size, spread) ==
    [i \in 1..NumLandmarks |->
        << wx + size * (((i - 1) % 4) - 1) * spread,
           wy - size * ((i - 1) \div 3) >>]

HandA == MakeHand(300, 600, 20, 1)
HandB == MakeHand(700, 600, 20, 2)
HandC == MakeHand(650, 500, 30, 3)

Detection(hands, labels) ==
    [hand_landmarks |-> hands,
     handedness     |-> [i \in 1..Len(labels) |-> << labels[i] >>]]

Detections ==
    << Detection(<< >>, << >>),
       Detection(<< HandA >>, << "Left" >>),
       Detection(<< HandA, HandB >>, << "Left", "Right" >>),
       Detection(<< HandC, HandA >>, << "Right", "Left" >>) >>

\* extract_features of every detector result, computed once
FrameFeatures ==
    [i \in 1..Len(Detections) |->
        extract_features(Detections[i].hand_landmarks, Detections[i].handedness)]

\* the same for the inference loop, with the functions of detect_realtime.py
DetectFrameFeatures ==
    [i \in 1..Len(Detections) |->
        detect_realtime_extract_features(Detections[i].hand_landmarks,
                                         Detections[i].handedness)]

(***************************************************************************)
(* Inputs of the two functions taken on their own: lists of up to MaxHands *)
(* hands with their labels, and single hands enlarged and moved.  Two of   *)
(* the hands are degenerate: HandPoint has all 21 landmarks on one point,  *)
(* HandFold has landmark 9 on the wrist and the other landmarks apart.     *)
(***************************************************************************)
HandPoint == [i \in 1..NumLandmarks |-> << 500, 500 >>]

HandFold ==
    LET hand == MakeHand(400, 400, 1, 1)
    IN  [hand EXCEPT ![10] = hand[1]]

ListHands == { HandA, HandB, HandPoint, HandFold }

Labels == { "Left", "Right", "Other" }

SingleHands == { HandA, HandB, HandC, HandPoint, HandFold }

Shifts == { << 0, 0 >>, << 25, -40 >>, << -100, 60 >>, << 7, 7 >> }

HandLists == UNION { [1..n -> ListHands] : n \in 0..MaxHands }

LabelLists(n) == [1..n -> Labels]

\* the hand enlarged factor times about the image origin and moved by shift
Transform(hand, factor, shift) ==
    [i \in 1..Len(hand) |->
        << factor * hand[i][1] + shift[1], factor * hand[i][2] + shift[2] >>]

\* a list in reverse order
Reverse(s) == [i \in 1..Len(s) |-> s[Len(s) + 1 - i]]

(***************************************************************************)
(* State.                                                                  *)
(*   collection loop (collect_data.main): cap, pc, clock, features, key,   *)
(*     two_hands_start_time, pending_sample, captured_features,            *)
(*     auto_sample_status, heart_count, not_heart_count, dataset (the rows *)
(*     of the CSV file below its header)                                   *)
(*   inference loop (detect_realtime.main): dpc, prediction_buffer,        *)
(*     avg_probability, is_heart, display_text; model_file and scaler_file *)
(*     (the file exists), model and scaler ("None" or "loaded"), detector  *)
(*     ("none" or "created"), dcap (the capture of the inference loop)     *)
(*   the functions on their own: fpc, the arguments arg_hands and          *)
(*     arg_handedness of extract_features with the results res_features    *)
(*     (collect_data.py), res_features_rt (detect_realtime.py) and         *)
(*     res_swapped (collect_data.py, arguments in reverse order); the      *)
(*     argument arg_hand of normalize_landmarks with the result res_norm,  *)
(*     and res_norm_moved for the hand enlarged arg_factor times and moved *)
(*     by arg_shift                                                        *)
(*   history, read by the properties only:                                 *)
(*     streak_start     time of the first two-hand frame of the run of     *)
(*                      two-hand frames that began in idle, NoTime when    *)
(*                      a gap frame or a confirmation ended it             *)
(*     cap_count        capture transitions during that run                *)
(*     gap_since_start  a frame with fewer than two hands was processed    *)
(*                      since the hold timer was last started              *)
(*     broken_hold      a gap frame has reset a running hold timer         *)
(*     snap             feature vector of the frame of the last capture    *)
(*     since_gap        probabilities of the two-hand frames since the     *)
(*                      last gap frame, oldest first                       *)
(*     heart_before_gap the decision was heart when the last gap came      *)
(***************************************************************************)
VARIABLES cap, pc, clock, features, key,
          two_hands_start_time, pending_sample, captured_features,
          auto_sample_status, heart_count, not_heart_count, dataset,
          dpc, prediction_buffer, avg_probability, is_heart, display_text,
          streak_start, cap_count, gap_since_start, broken_hold, snap,
          since_gap, heart_before_gap,
          model_file, scaler_file, model, scaler, detector, dcap,
          fpc, arg_hands, arg_handedness, res_features, res_features_rt,
          res_swapped, arg_hand, arg_factor, arg_shift, res_norm, res_norm_moved

collect_vars == << cap, pc, clock, features, key,
                   two_hands_start_time, pending_sample, captured_features,
                   auto_sample_status, heart_count, not_heart_count, dataset >>
detect_vars  == << dpc, prediction_buffer, avg_probability, is_heart,
                   display_text, model_file, scaler_file, model, scaler,
                   detector, dcap >>
function_vars == << fpc, arg_hands, arg_handedness, res_features,
                    res_features_rt, res_swapped, arg_hand, arg_factor,
                    arg_shift, res_norm, res_norm_moved >>
history_vars == << streak_start, cap_count, gap_since_start, broken_hold, snap,
                   since_gap, heart_before_gap >>
vars == << collect_vars, detect_vars, history_vars, function_vars >>

\* cv2.waitKey(1) & 0xFF: a key of the loop, or no such key
Keys == { "q", "Q", "h", "H", "n", "N", "a", "A", "d", "D", "none" }

(***************************************************************************)
(* save_sample: append the row list(features) + [label] to the CSV file.   *)
(***************************************************************************)
Row(f, label) == f \o << label >>

\* mutant: the file is opened for writing, not for appending
save_sample_Truncate(rows, f, label) == << Row(f, label) >>

save_sample(rows, f, label) == Append(rows, Row(f, label))

(***************************************************************************)
(* The auto-capture logic of one frame (collect_data.py lines 191-207) on  *)
(* the capture state cs, for the frame's features f; t1 is the clock read  *)
(* that starts the timer and t2 the read that measures the elapsed time.   *)
(***************************************************************************)
CaptureState ==
    [two_hands_start_time |-> two_hands_start_time,
     pending_sample       |-> pending_sample,
     captured_features    |-> captured_features,
     auto_sample_status   |-> auto_sample_status]

\* line 197, elapsed >= 3.0
HoldReached_Strict(elapsed) == elapsed > HoldSeconds

HoldReached(elapsed) == elapsed >= HoldSeconds

\* lines 193-203: a frame with two hands
OnTwoHands(cs, f, t1, t2) ==
    IF ~cs.pending_sample
    THEN LET start   == IF cs.two_hands_start_time = NoTime
                        THEN t1 ELSE cs.two_hands_start_time
             elapsed == t2 - start
         IN  IF HoldReached(elapsed) /\ ~cs.pending_sample
             THEN [two_hands_start_time |-> start,
                   pending_sample       |-> TRUE,
                   captured_features    |-> f,
                   auto_sample_status   |-> << "captured" >>]
             ELSE [cs EXCEPT !.two_hands_start_time = start,
                             !.auto_sample_status =
                                 << "hold", Max(0, HoldSeconds - elapsed) >>]
    ELSE cs

\* mutant: a gap frame leaves a running timer alone
OnGap_KeepTimer(cs) ==
    IF ~cs.pending_sample
    THEN [cs EXCEPT !.auto_sample_status = << "show" >>]
    ELSE cs

\* mutant: a gap frame resets the timer although a sample is pending
OnGap_IgnorePending(cs) ==
    [cs EXCEPT !.two_hands_start_time = NoTime,
               !.auto_sample_status = << "show" >>]

\* lines 204-207: a frame with fewer than two hands
OnGap(cs) ==
    IF ~cs.pending_sample
    THEN [cs EXCEPT !.two_hands_start_time = NoTime,
                    !.auto_sample_status = << "show" >>]
    ELSE cs

AutoCapture(cs, f, t1, t2) ==
    IF f # None THEN OnTwoHands(cs, f, t1, t2) ELSE OnGap(cs)

(***************************************************************************)
(* The key handling of one frame (collect_data.py lines 231-270) on the    *)
(* loop state st, for the key k and the frame's features f.                *)
(***************************************************************************)
LoopState ==
    [two_hands_start_time |-> two_hands_start_time,
     pending_sample       |-> pending_sample,
     captured_features    |-> captured_features,
     auto_sample_status   |-> auto_sample_status,
     heart_count          |-> heart_count,
     not_heart_count      |-> not_heart_count,
     dataset              |-> dataset,
     quit                 |-> FALSE]

\* mutant: H and N save without looking at the features
LabelNow_NoHandsCheck(st, f, label) ==
    IF label = 1
    THEN [st EXCEPT !.dataset = save_sample(st.dataset, f, 1),
                    !.heart_count = st.heart_count + 1]
    ELSE [st EXCEPT !.dataset = save_sample(st.dataset, f, 0),
                    !.not_heart_count = st.not_heart_count + 1]

\* mutant: H and N also restart the hold
LabelNow_ClearsTimer(st, f, label) ==
    IF f # None
    THEN IF label = 1
         THEN [st EXCEPT !.dataset = save_sample(st.dataset, f, 1),
                         !.heart_count = st.heart_count + 1,
                         !.two_hands_start_time = NoTime]
         ELSE [st EXCEPT !.dataset = save_sample(st.dataset, f, 0),
                         !.not_heart_count = st.not_heart_count + 1,
                         !.two_hands_start_time = NoTime]
    ELSE st

\* H (label 1) and N (label 0): save the current frame's features
LabelNow(st, f, label) ==
    IF f # None
    THEN IF label = 1
         THEN [st EXCEPT !.dataset = save_sample(st.dataset, f, 1),
                         !.heart_count = st.heart_count + 1]
         ELSE [st EXCEPT !.dataset = save_sample(st.dataset, f, 0),
                         !.not_heart_count = st.not_heart_count + 1]
    ELSE st

\* mutant: the confirmation leaves the hold timer running
ConfirmPending_KeepTimer(st, label) ==
    IF st.pending_sample /\ st.captured_features # None
    THEN LET saved == save_sample(st.dataset, st.captured_features, label)
         IN  [st EXCEPT !.dataset = saved,
                        !.heart_count =
                            IF label = 1 THEN st.heart_count + 1 ELSE st.heart_count,
                        !.not_heart_count =
                            IF label = 0 THEN st.not_heart_count + 1
                                         ELSE st.not_heart_count,
                        !.pending_sample = FALSE,
                        !.captured_features = None,
                        !.auto_sample_status = << "saved", label >>]
    ELSE st

\* A (label 1) and D (label 0): save the pending snapshot and return to idle
\* mutant: a confirmation ends the pending state and keeps the snapshot
ConfirmPending_KeepSnapshot(st, label) ==
    IF st.pending_sample /\ st.captured_features # None
    THEN LET saved == save_sample(st.dataset, st.captured_features, label)
         IN  [st EXCEPT !.dataset = saved,
                        !.heart_count =
                            IF label = 1 THEN st.heart_count + 1 ELSE st.heart_count,
                        !.not_heart_count =
                            IF label = 0 THEN st.not_heart_count + 1
                                         ELSE st.not_heart_count,
                        !.pending_sample = FALSE,
                        !.two_hands_start_time = NoTime,
                        !.auto_sample_status = << "saved", label >>]
    ELSE st

ConfirmPending(st, label) ==
    IF st.pending_sample /\ st.captured_features # None
    THEN LET saved == save_sample(st.dataset, st.captured_features, label)
         IN  [st EXCEPT !.dataset = saved,
                        !.heart_count =
                            IF label = 1 THEN st.heart_count + 1 ELSE st.heart_count,
                        !.not_heart_count =
                            IF label = 0 THEN st.not_heart_count + 1
                                         ELSE st.not_heart_count,
                        !.pending_sample = FALSE,
                        !.captured_features = None,
                        !.two_hands_start_time = NoTime,
                        !.auto_sample_status = << "saved", label >>]
    ELSE st

\* mutant: A and D save the features of the frame of the key press
HandleKey_SaveLive(st, k, f) ==
    IF k \in { "q", "Q" } THEN [st EXCEPT !.quit = TRUE]
    ELSE IF k \in { "h", "H" } THEN LabelNow(st, f, 1)
    ELSE IF k \in { "n", "N" } THEN LabelNow(st, f, 0)
    ELSE IF k \in { "a", "A" }
         THEN ConfirmPending([st EXCEPT !.captured_features =
                                 IF f # None THEN f ELSE st.captured_features], 1)
    ELSE IF k \in { "d", "D" }
         THEN ConfirmPending([st EXCEPT !.captured_features =
                                 IF f # None THEN f ELSE st.captured_features], 0)
    ELSE st

\* mutant: Q saves a pending sample as HEART before it leaves the loop
HandleKey_QuitSavesPending(st, k, f) ==
    IF k \in { "q", "Q" } THEN [ConfirmPending(st, 1) EXCEPT !.quit = TRUE]
    ELSE IF k \in { "h", "H" } THEN LabelNow(st, f, 1)
    ELSE IF k \in { "n", "N" } THEN LabelNow(st, f, 0)
    ELSE IF k \in { "a", "A" } THEN ConfirmPending(st, 1)
    ELSE IF k \in { "d", "D" } THEN ConfirmPending(st, 0)
    ELSE st

HandleKey(st, k, f) ==
    IF k \in { "q", "Q" } THEN [st EXCEPT !.quit = TRUE]
    ELSE IF k \in { "h", "H" } THEN LabelNow(st, f, 1)
    ELSE IF k \in { "n", "N" } THEN LabelNow(st, f, 0)
    ELSE IF k \in { "a", "A" } THEN ConfirmPending(st, 1)
    ELSE IF k \in { "d", "D" } THEN ConfirmPending(st, 0)
    ELSE st

(***************************************************************************)
(* Initial state: both programs before main() runs.  The CSV file may hold *)
(* a row of an earlier session (init_csv keeps an existing file).          *)
(***************************************************************************)
EarlierSessions == { << >>, << Row(FrameFeatures[3], 0) >> }

CollectIdle ==
    /\ cap = "unopened"
    /\ pc = "start"
    /\ clock = 0
    /\ features = None
    /\ key = "none"
    /\ two_hands_start_time = NoTime
    /\ pending_sample = FALSE
    /\ captured_features = None
    /\ auto_sample_status = << "show" >>
    /\ heart_count = 0
    /\ not_heart_count = 0

DetectIdle ==
    /\ dpc = "start"
    /\ prediction_buffer = << >>
    /\ avg_probability = << 0, 0 >>
    /\ is_heart = FALSE
    /\ display_text = "NO HEART"
    /\ model = "None"
    /\ scaler = "None"
    /\ detector = "none"
    /\ dcap = "unopened"

HistoryIdle ==
    /\ streak_start = NoTime
    /\ cap_count = 0
    /\ gap_since_start = FALSE
    /\ broken_hold = FALSE
    /\ snap = None
    /\ since_gap = << >>
    /\ heart_before_gap = FALSE

ExtractIdle ==
    /\ arg_hands = << >>
    /\ arg_handedness = << >>
    /\ res_features = None
    /\ res_features_rt = None
    /\ res_swapped = None

NormalizeIdle ==
    /\ arg_hand = << >>
    /\ arg_factor = 1
    /\ arg_shift = << 0, 0 >>
    /\ res_norm = << >>
    /\ res_norm_moved = << >>

\* the collection loop is about to run; the inference loop is not looked at
Init ==
    /\ CollectIdle
    /\ dataset \in EarlierSessions
    /\ DetectIdle
    /\ model_file = TRUE
    /\ scaler_file = TRUE
    /\ HistoryIdle
    /\ fpc = "idle"
    /\ ExtractIdle
    /\ NormalizeIdle

(***************************************************************************)
(* Collection loop, collect_data.main.                                     *)
(***************************************************************************)
\* lines 146-150: the webcam is opened; main returns when it cannot be
OpenCamera ==
    /\ pc = "start"
    /\ \E opened \in BOOLEAN :
          IF opened THEN cap' = "opened" /\ pc' = "frame"
                    ELSE cap' = "failed" /\ pc' = "exit"
    /\ UNCHANGED << clock, features, key, two_hands_start_time, pending_sample,
                    captured_features, auto_sample_status, heart_count,
                    not_heart_count, dataset >>
    /\ UNCHANGED << detect_vars, history_vars, function_vars >>

\* lines 171-174 and 272-273: a frame cannot be read; the loop is left and
\* the capture is released
ReadFail ==
    /\ pc = "frame"
    /\ cap' = "released"
    /\ pc' = "exit"
    /\ UNCHANGED << clock, features, key, two_hands_start_time, pending_sample,
                    captured_features, auto_sample_status, heart_count,
                    not_heart_count, dataset >>
    /\ UNCHANGED << detect_vars, history_vars, function_vars >>

\* lines 171-229: a frame is read, the hands are detected, the features are
\* extracted and the auto-capture logic runs.  The frame comes dt seconds
\* after the last clock value; the second clock read of the frame comes lag
\* seconds after the first.
ProcessFrame ==
    /\ pc = "frame"
    /\ \E i \in 1..Len(Detections), dt \in 0..MaxDt, lag \in 0..MaxLag :
          LET f  == FrameFeatures[i]
              t1 == clock + dt
              t2 == t1 + lag
              cs == AutoCapture(CaptureState, f, t1, t2)
              idle     == two_hands_start_time = NoTime /\ ~pending_sample
              captured == cs.pending_sample /\ ~pending_sample
              started  == two_hands_start_time = NoTime
                            /\ cs.two_hands_start_time # NoTime
              streak   == IF f = None THEN NoTime
                          ELSE IF streak_start = NoTime /\ idle THEN t1
                          ELSE streak_start
          IN  /\ t2 <= MaxTime
              /\ features' = f
              /\ clock' = t2
              /\ two_hands_start_time' = cs.two_hands_start_time
              /\ pending_sample' = cs.pending_sample
              /\ captured_features' = cs.captured_features
              /\ auto_sample_status' = cs.auto_sample_status
              /\ streak_start' = streak
              /\ cap_count' = IF streak = NoTime THEN 0
                              ELSE IF streak_start = NoTime
                                   THEN (IF captured THEN 1 ELSE 0)
                              ELSE IF captured THEN cap_count + 1 ELSE cap_count
              /\ gap_since_start' = IF f = None THEN TRUE
                                    ELSE IF started THEN FALSE
                                    ELSE gap_since_start
              /\ broken_hold' = (broken_hold \/ (two_hands_start_time # NoTime
                                                    /\ cs.two_hands_start_time = NoTime))
              /\ snap' = IF captured THEN f ELSE snap
    /\ pc' = "key"
    /\ UNCHANGED << cap, key, heart_count, not_heart_count, dataset,
                    since_gap, heart_before_gap >>
    /\ UNCHANGED << detect_vars, function_vars >>

\* lines 231-273: the key of the frame is handled; Q leaves the loop and
\* the capture is released
ProcessKey ==
    /\ pc = "key"
    /\ \E k \in Keys :
          LET st == HandleKey(LoopState, k, features)
              confirmed == pending_sample /\ ~st.pending_sample
          IN  /\ st.heart_count + st.not_heart_count <= MaxRows
              /\ key' = k
              /\ two_hands_start_time' = st.two_hands_start_time
              /\ pending_sample' = st.pending_sample
              /\ captured_features' = st.captured_features
              /\ auto_sample_status' = st.auto_sample_status
              /\ heart_count' = st.heart_count
              /\ not_heart_count' = st.not_heart_count
              /\ dataset' = st.dataset
              /\ IF st.quit THEN cap' = "released" /\ pc' = "exit"
                            ELSE cap' = cap /\ pc' = "frame"
              /\ streak_start' = IF confirmed THEN NoTime ELSE streak_start
              /\ cap_count' = IF confirmed THEN 0 ELSE cap_count
              /\ snap' = IF confirmed THEN None ELSE snap
    /\ UNCHANGED << clock, features, gap_since_start, broken_hold,
                    since_gap, heart_before_gap >>
    /\ UNCHANGED << detect_vars, function_vars >>

Next == OpenCamera \/ ReadFail \/ ProcessFrame \/ ProcessKey

Spec == Init /\ [][Next]_vars

(***************************************************************************)
(* Inference loop, detect_realtime.main.                                   *)
(***************************************************************************)
\* predict_proba of the classifier, in hundredths
Probs == { 50, 90 }

\* mutant: a deque without maxlen
deque_append_Unbounded(buffer, probability) == Append(buffer, probability)

\* mutant: a full deque refuses the new entry
deque_append_DropsNewest(buffer, probability) ==
    IF Len(buffer) >= SMOOTHING_WINDOW
    THEN buffer
    ELSE Append(buffer, probability)

\* deque(maxlen=SMOOTHING_WINDOW).append: a full deque drops its oldest entry
deque_append(buffer, probability) ==
    IF Len(buffer) >= SMOOTHING_WINDOW
    THEN Append(Tail(buffer), probability)
    ELSE Append(buffer, probability)

\* mutant: the sum is divided by the size of the window, filled or not
Mean_OverWindow(buffer) == << SumSeq(buffer), SMOOTHING_WINDOW >>

\* np.mean of the buffer, as the exact fraction << sum, count >>
Mean(buffer) == << SumSeq(buffer), Len(buffer) >>

\* mutant: the threshold is exclusive
AtLeastThreshold_Strict(avg) == avg[1] > HEART_THRESHOLD * avg[2]

\* avg_probability >= HEART_THRESHOLD
AtLeastThreshold(avg) == avg[1] >= HEART_THRESHOLD * avg[2]

DetectState ==
    [prediction_buffer |-> prediction_buffer,
     avg_probability   |-> avg_probability,
     is_heart          |-> is_heart,
     display_text      |-> display_text]

\* mutant: a gap frame keeps the window
Decide_KeepWindowOnGap(ds, f, probability) ==
    IF f # None
    THEN LET buffer == deque_append(ds.prediction_buffer, probability)
             avg    == Mean(buffer)
             heart  == AtLeastThreshold(avg)
         IN  [prediction_buffer |-> buffer,
              avg_probability   |-> avg,
              is_heart          |-> heart,
              display_text      |-> IF heart THEN "HEART <3" ELSE "NO HEART"]
    ELSE [ds EXCEPT !.display_text = "NO HEART"]

\* lines 193-293: the decision of one frame, for the features f of the frame
\* and the probability the classifier gives them
Decide(ds, f, probability) ==
    IF f # None
    THEN LET buffer == deque_append(ds.prediction_buffer, probability)
             avg    == Mean(buffer)
             heart  == AtLeastThreshold(avg)
         IN  [prediction_buffer |-> buffer,
              avg_probability   |-> avg,
              is_heart          |-> heart,
              display_text      |-> IF heart THEN "HEART <3" ELSE "NO HEART"]
    ELSE [ds EXCEPT !.prediction_buffer = << >>,
                    !.display_text = "NO HEART"]

\* the inference program is about to run; either file may be missing
InitDetect ==
    /\ CollectIdle
    /\ dataset = << >>
    /\ DetectIdle
    /\ model_file \in BOOLEAN
    /\ scaler_file \in BOOLEAN
    /\ HistoryIdle
    /\ fpc = "idle"
    /\ ExtractIdle
    /\ NormalizeIdle

\* mutant: the scaler file is not looked for, and a missing one loads nothing
load_model_ScalerUnchecked(model_exists, scaler_exists) ==
    IF ~model_exists
    THEN << "None", "None" >>
    ELSE << "loaded", IF scaler_exists THEN "loaded" ELSE "None" >>

\* load_model: (None, None) when either file is missing, else both loaded
load_model(model_exists, scaler_exists) ==
    IF ~model_exists
    THEN << "None", "None" >>
    ELSE IF ~scaler_exists
         THEN << "None", "None" >>
         ELSE << "loaded", "loaded" >>

\* lines 151-167: the model and the scaler are loaded; main returns when the
\* model is None; else the detector is created and the webcam is opened, and
\* main returns when it cannot be
DetectStart ==
    /\ dpc = "start"
    /\ LET loaded == load_model(model_file, scaler_file)
       IN  /\ model' = loaded[1]
           /\ scaler' = loaded[2]
           /\ IF loaded[1] = "None"
              THEN dpc' = "exit" /\ detector' = detector /\ dcap' = dcap
              ELSE /\ detector' = "created"
                   /\ \E opened \in BOOLEAN :
                         IF opened THEN dcap' = "opened" /\ dpc' = "frame"
                                   ELSE dcap' = "failed" /\ dpc' = "exit"
    /\ UNCHANGED << prediction_buffer, avg_probability, is_heart, display_text,
                    model_file, scaler_file >>
    /\ UNCHANGED << collect_vars, history_vars, function_vars >>

\* lines 173-176 and 306-307: a frame cannot be read; the loop is left and
\* the capture is released
DetectReadFail ==
    /\ dpc = "frame"
    /\ dpc' = "exit"
    /\ dcap' = "released"
    /\ UNCHANGED << prediction_buffer, avg_probability, is_heart, display_text,
                    model_file, scaler_file, model, scaler, detector >>
    /\ UNCHANGED << collect_vars, history_vars, function_vars >>

\* lines 173-307: one iteration of the loop: a frame is read, the decision is
\* taken and shown, and Q leaves the loop and the capture is released; the
\* classifier's probability comes from the set probabilities
DetectFrameOn(probabilities) ==
    /\ dpc = "frame"
    /\ \E i \in 1..Len(Detections), probability \in probabilities,
          k \in { "q", "Q", "none" } :
          LET f  == DetectFrameFeatures[i]
              ds == Decide(DetectState, f, probability)
          IN  /\ f # None => Len(since_gap) < MaxStreak
              /\ prediction_buffer' = ds.prediction_buffer
              /\ avg_probability' = ds.avg_probability
              /\ is_heart' = ds.is_heart
              /\ display_text' = ds.display_text
              /\ since_gap' = IF f # None THEN Append(since_gap, probability)
                              ELSE << >>
              /\ heart_before_gap' = IF f # None THEN heart_before_gap
                                     ELSE display_text = "HEART <3"
              /\ dpc' = IF k \in { "q", "Q" } THEN "exit" ELSE "frame"
              /\ dcap' = IF k \in { "q", "Q" } THEN "released" ELSE dcap
    /\ UNCHANGED << model_file, scaler_file, model, scaler, detector >>
    /\ UNCHANGED << streak_start, cap_count, gap_since_start, broken_hold, snap >>
    /\ UNCHANGED << collect_vars, function_vars >>

DetectFrame == DetectFrameOn(Probs)

NextDetect == DetectStart \/ DetectReadFail \/ DetectFrame

SpecDetect == InitDetect /\ [][NextDetect]_vars

(***************************************************************************)
(* The inference loop with probabilities next to the threshold.            *)
(***************************************************************************)
\* 0.79 and 0.80, in hundredths
NearProbs == { 79, 80 }

DetectFrameNear == DetectFrameOn(NearProbs)

NextLatency == DetectStart \/ DetectReadFail \/ DetectFrameNear

SpecLatency == InitDetect /\ [][NextLatency]_vars

(***************************************************************************)
(* extract_features on its own: the arguments are drawn at the start and   *)
(* the function of either file is applied to them.                         *)
(***************************************************************************)
InitFeatures ==
    /\ CollectIdle
    /\ dataset = << >>
    /\ DetectIdle
    /\ model_file = TRUE
    /\ scaler_file = TRUE
    /\ HistoryIdle
    /\ fpc = "input"
    /\ arg_hands \in HandLists
    /\ \E labels \in LabelLists(Len(arg_hands)) :
          arg_handedness = [i \in 1..Len(labels) |-> << labels[i] >>]
    /\ res_features = None
    /\ res_features_rt = None
    /\ res_swapped = None
    /\ NormalizeIdle

ApplyExtract ==
    /\ fpc = "input"
    /\ fpc' = "done"
    /\ res_features' = extract_features(arg_hands, arg_handedness)
    /\ res_features_rt' = detect_realtime_extract_features(arg_hands, arg_handedness)
    /\ res_swapped' = extract_features(Reverse(arg_hands), Reverse(arg_handedness))
    /\ UNCHANGED << arg_hands, arg_handedness, arg_hand, arg_factor, arg_shift,
                    res_norm, res_norm_moved >>
    /\ UNCHANGED << collect_vars, detect_vars, history_vars >>

NextFeatures == ApplyExtract

SpecFeatures == InitFeatures /\ [][NextFeatures]_vars

(***************************************************************************)
(* normalize_landmarks on its own: a hand, a factor and a shift are drawn  *)
(* at the start, and the function is applied to the hand and to the hand   *)
(* enlarged and moved.                                                     *)
(***************************************************************************)
InitNormalize ==
    /\ CollectIdle
    /\ dataset = << >>
    /\ DetectIdle
    /\ model_file = TRUE
    /\ scaler_file = TRUE
    /\ HistoryIdle
    /\ fpc = "input"
    /\ ExtractIdle
    /\ arg_hand \in SingleHands
    /\ arg_factor \in 1..MaxFactor
    /\ arg_shift \in Shifts
    /\ res_norm = << >>
    /\ res_norm_moved = << >>

ApplyNormalize ==
    /\ fpc = "input"
    /\ fpc' = "done"
    /\ res_norm' = normalize_landmarks(arg_hand)
    /\ res_norm_moved' = normalize_landmarks(Transform(arg_hand, arg_factor, arg_shift))
    /\ UNCHANGED << arg_hands, arg_handedness, res_features, res_features_rt,
                    res_swapped, arg_hand, arg_factor, arg_shift >>
    /\ UNCHANGED << collect_vars, detect_vars, history_vars >>

NextNormalize == ApplyNormalize

SpecNormalize == InitNormalize /\ [][NextNormalize]_vars

(***************************************************************************)
(* Properties of the collection loop, checked under Spec.                  *)
(***************************************************************************)
LabelKeys(label) == IF label = 1 THEN { "h", "H" } ELSE { "n", "N" }
ConfirmKeys(label) == IF label = 1 THEN { "a", "A" } ELSE { "d", "D" }

\* a step of ProcessFrame, and a step of ProcessKey
FrameStep == pc = "frame" /\ pc' = "key"
KeyStep == pc = "key" /\ pc' # "key"

\* C1: during a run of two-hand frames that began in idle, a sample is
\* pending exactly when the latest frame came at least 3 s after the first
\* frame of the run, and the run has seen one capture transition when a
\* sample is pending and none before.  Frame times only grow, so the capture
\* happens at the first frame that is 3 s or more after the first one, and
\* the later two-hand frames add no capture.
C1_OneCapturePerHold ==
    streak_start # NoTime =>
        /\ pending_sample <=> (clock - streak_start >= HoldSeconds)
        /\ cap_count = (IF pending_sample THEN 1 ELSE 0)

\* a two-hand frame that came after the capture frame of its run
C1_Witness ==
    /\ streak_start # NoTime
    /\ pending_sample
    /\ features # None
    /\ cap_count = 1
    /\ clock - streak_start > HoldSeconds - 1 + MaxDt + MaxLag

\* C2: a capture comes only in a two-hand frame, with no frame of fewer than
\* two hands since the hold timer was started and at least 3 s on the timer;
\* a gap frame with nothing pending captures nothing and resets the timer to
\* None; and a timer that starts is set to a clock value of its own frame.
C2_CaptureOnlyAfterUnbrokenHold ==
    [][ /\ (~pending_sample /\ pending_sample') =>
              /\ FrameStep
              /\ features' # None
              /\ ~gap_since_start'
              /\ clock' - two_hands_start_time' >= HoldSeconds
        /\ (FrameStep /\ features' = None /\ ~pending_sample) =>
              /\ ~pending_sample'
              /\ two_hands_start_time' = NoTime
        /\ (two_hands_start_time = NoTime /\ two_hands_start_time' # NoTime) =>
              /\ FrameStep
              /\ two_hands_start_time' >= clock
              /\ two_hands_start_time' <= clock' ]_vars

\* a capture after an earlier hold was broken by a gap frame
C2_Witness ==
    /\ broken_hold
    /\ pending_sample
    /\ ~gap_since_start
    /\ clock - two_hands_start_time >= HoldSeconds

\* C3: the snapshot is the feature vector of the capture frame, it does not
\* change while the sample is pending, and the row a confirmation writes is
\* that vector with the label of the key.
C3_SnapshotImmutable ==
    [][ /\ (~pending_sample /\ pending_sample') =>
              captured_features' = features' /\ features' # None
        /\ (pending_sample /\ pending_sample') =>
              captured_features' = captured_features
        /\ pending_sample' => captured_features' = snap'
        /\ (pending_sample /\ ~pending_sample') =>
              \E label \in { 0, 1 } :
                 /\ key' \in ConfirmKeys(label)
                 /\ dataset' = Append(dataset, Row(snap, label)) ]_vars

\* a confirmation in a frame whose own feature vector is not the one written
C3_Witness ==
    /\ pc = "frame"
    /\ auto_sample_status[1] = "saved"
    /\ features # None
    /\ dataset[Len(dataset)] # Row(features, auto_sample_status[2])

\* C4: while a sample is pending, a frame leaves pending_sample,
\* captured_features and two_hands_start_time as they are, with two hands or
\* fewer, and the sample stops being pending only when A or D is handled.
C4_PendingIsStable ==
    [][ pending_sample =>
           /\ pc = "frame" =>
                 UNCHANGED << two_hands_start_time, pending_sample,
                              captured_features >>
           /\ ~pending_sample' =>
                 KeyStep /\ key' \in ConfirmKeys(1) \cup ConfirmKeys(0) ]_vars

\* a gap frame processed while a sample is pending
C4_Witness ==
    /\ pc = "key"
    /\ pending_sample
    /\ features = None
    /\ two_hands_start_time # NoTime
    /\ captured_features # None

\* C5: A (D) handled while a sample is pending appends the one row snapshot
\* + 1 (0) and leaves the machine idle: nothing pending, no snapshot, no
\* timer; and every capture comes at least 3 s after the first two-hand
\* frame that followed the idle state.
C5_ConfirmWritesAndIdles ==
    [][ /\ \A label \in { 0, 1 } :
              (KeyStep /\ pending_sample /\ key' \in ConfirmKeys(label)) =>
                  /\ dataset' = Append(dataset, Row(captured_features, label))
                  /\ heart_count' + not_heart_count'
                        = heart_count + not_heart_count + 1
                  /\ heart_count' = heart_count + label
                  /\ ~pending_sample'
                  /\ captured_features' = None
                  /\ two_hands_start_time' = NoTime
        /\ (~pending_sample /\ pending_sample') =>
              /\ streak_start' # NoTime
              /\ clock' - streak_start' >= HoldSeconds ]_vars

\* the state A leaves behind when two hands are in view
C5_Witness ==
    /\ pc = "frame"
    /\ key \in ConfirmKeys(1)
    /\ auto_sample_status = << "saved", 1 >>
    /\ features # None
    /\ ~pending_sample
    /\ captured_features = None
    /\ two_hands_start_time = NoTime
    /\ heart_count = 1

\* C6 as claimed: H, N, A and D do nothing in a frame with fewer than two
\* hands.
C6_NoOpBelowTwoHands ==
    [][ (KeyStep /\ features = None
            /\ key' \in LabelKeys(1) \cup LabelKeys(0)
                        \cup ConfirmKeys(1) \cup ConfirmKeys(0)) =>
           UNCHANGED << dataset, heart_count, not_heart_count,
                        two_hands_start_time, pending_sample,
                        captured_features >> ]_vars

\* C6 as amended: H and N do nothing in a frame with fewer than two hands,
\* and A and D do nothing when no sample is pending.
C6_NoOpWithoutPrecondition ==
    [][ /\ (KeyStep /\ features = None
               /\ key' \in LabelKeys(1) \cup LabelKeys(0)) =>
               UNCHANGED << dataset, heart_count, not_heart_count,
                            two_hands_start_time, pending_sample,
                            captured_features >>
        /\ (KeyStep /\ ~pending_sample
               /\ key' \in ConfirmKeys(1) \cup ConfirmKeys(0)) =>
               UNCHANGED << dataset, heart_count, not_heart_count,
                            two_hands_start_time, pending_sample,
                            captured_features >> ]_vars

\* H handled in a gap frame while a sample is pending
C6_Witness ==
    /\ pc = "frame"
    /\ key \in LabelKeys(1)
    /\ features = None
    /\ pending_sample
    /\ heart_count = 0

\* C7: H (N) in a frame with two hands appends the one row current features
\* + 1 (0) and leaves two_hands_start_time, pending_sample and
\* captured_features as they are, in idle, accumulating and captured.
C7_ImmediateCaptureIndependent ==
    [][ \A label \in { 0, 1 } :
           (KeyStep /\ features # None /\ key' \in LabelKeys(label)) =>
               /\ dataset' = Append(dataset, Row(features, label))
               /\ heart_count' = heart_count + label
               /\ not_heart_count' = not_heart_count + (1 - label)
               /\ UNCHANGED << two_hands_start_time, pending_sample,
                               captured_features >> ]_vars

\* H handled while another frame's snapshot is pending
C7_Witness ==
    /\ pc = "frame"
    /\ key \in LabelKeys(1)
    /\ features # None
    /\ pending_sample
    /\ captured_features # features
    /\ heart_count = 1
    /\ dataset[Len(dataset)] = Row(features, 1)

(***************************************************************************)
(* Properties of the inference loop, checked under SpecDetect.             *)
(***************************************************************************)
\* the last n entries of s
LastN(s, n) == SubSeq(s, Len(s) - n + 1, Len(s))

\* the probabilities a correct window holds: the last min(k, 10) of the k
\* probabilities since the last gap
RecentProbs == LastN(since_gap, Min(Len(since_gap), 10))

\* C8: the window holds at most 10 entries and equals the most recent
\* min(k, 10) probabilities since the last gap, in arrival order.
C8_WindowIsRecentTen ==
    /\ Len(prediction_buffer) <= 10
    /\ prediction_buffer = RecentProbs

\* the 11th probability of a streak has pushed out a different first one
C8_Witness ==
    /\ Len(since_gap) = 11
    /\ Len(prediction_buffer) = 10
    /\ since_gap[1] # since_gap[11]
    /\ since_gap[1] # since_gap[2]

\* C9: after a gap frame the window is empty and the decision is not-heart,
\* and the decision of a two-hand frame is the threshold test on the
\* probabilities since the last gap alone.
C9_GapClearsWindow ==
    /\ since_gap = << >> =>
          prediction_buffer = << >> /\ display_text = "NO HEART"
    /\ since_gap # << >> =>
          ((display_text = "HEART <3")
              <=> (SumSeq(RecentProbs) >= 80 * Len(RecentProbs)))

\* a streak decided heart, a gap, and then a frame of probability 0.5
C9_Witness ==
    /\ heart_before_gap
    /\ since_gap = << 50 >>
    /\ display_text = "NO HEART"

SortKey(h) == IF h[1] = "Left" THEN 0 ELSE 1

\* the order a stable sort by SortKey visits the entries of a list in
LeftFirstOrder(handedness_list) ==
    LET n == Len(handedness_list)
    IN  CHOOSE p \in [1..n -> 1..n] :
           \A i \in 1..n : \A j \in 1..n :
              i < j =>
                 \/ SortKey(handedness_list[p[i]]) < SortKey(handedness_list[p[j]])
                 \/ /\ SortKey(handedness_list[p[i]]) = SortKey(handedness_list[p[j]])
                    /\ p[i] < p[j]

\* C11: extract_features gives None for no hand and for one hand, and for
\* two or more hands the 84 values of the first two hands after sorting:
\* the normalized first hand followed by the normalized second hand, with
\* nothing of a further hand.
C11_FirstTwoHandsOnly ==
    fpc = "done" =>
       IF Len(arg_hands) < 2
       THEN res_features = None
       ELSE LET p == LeftFirstOrder(arg_handedness)
            IN  /\ Len(res_features) = 84
                /\ res_features = normalize_landmarks(arg_hands[p[1]])
                                    \o normalize_landmarks(arg_hands[p[2]])

\* C12: two hands labelled "Right", "Left" in this detection order give the
\* same vector as the same hands in the order "Left", "Right": the
\* normalized Left hand followed by the normalized Right hand.
C12_OrderIndependent ==
    (fpc = "done" /\ Len(arg_hands) = 2
        /\ { arg_handedness[1], arg_handedness[2] } = { << "Left" >>, << "Right" >> }) =>
       LET l == IF arg_handedness[1] = << "Left" >> THEN 1 ELSE 2
       IN  /\ res_features = res_swapped
           /\ res_features = normalize_landmarks(arg_hands[l])
                               \o normalize_landmarks(arg_hands[3 - l])

\* the Right hand was detected first, and the two hands differ in shape
C12_Witness ==
    /\ fpc = "done"
    /\ arg_handedness = << << "Right" >>, << "Left" >> >>
    /\ normalize_landmarks(arg_hands[1]) # normalize_landmarks(arg_hands[2])
    /\ res_features = normalize_landmarks(arg_hands[2])
                        \o normalize_landmarks(arg_hands[1])
    /\ res_swapped = res_features

\* C15: for the same arguments, extract_features of detect_realtime.py (with
\* its own normalize_landmarks) returns what extract_features of
\* collect_data.py returns.
C15_SameFeaturesInBothFiles ==
    fpc = "done" => res_features_rt = res_features

\* both functions had hands to normalize and to reorder
C15_Witness ==
    /\ fpc = "done"
    /\ Len(arg_hands) = 2
    /\ arg_handedness = << << "Right" >>, << "Left" >> >>
    /\ normalize_landmarks(arg_hands[1]) # normalize_landmarks(arg_hands[2])
    /\ res_features_rt = res_features
    /\ res_features_rt # None

\* C19: the hands are concatenated in the order of a stable sort that puts
\* "Left" before every other label: hands with the same label keep their
\* detection order, and a "Left" hand precedes a hand with any other label.
C19_StableLeftFirst ==
    (fpc = "done" /\ Len(arg_hands) >= 2) =>
       LET p == LeftFirstOrder(arg_handedness)
       IN  res_features =
              Flatten([i \in 1..Len(arg_hands) |-> normalize_landmarks(arg_hands[p[i]])])

\* two hands of different shape with the same label stay in detection order
C19_Witness ==
    /\ fpc = "done"
    /\ arg_handedness = << << "Right" >>, << "Right" >> >>
    /\ arg_hands = << HandB, HandA >>
    /\ res_features = normalize_landmarks(HandB) \o normalize_landmarks(HandA)
    /\ normalize_landmarks(HandB) # normalize_landmarks(HandA)

(***************************************************************************)
(* Properties of normalize_landmarks, checked under SpecNormalize.         *)
(***************************************************************************)
\* squared distance from the wrist to the middle-finger MCP, in grid units
WristToMcpSq(hand) ==
    (hand[10][1] - hand[1][1]) * (hand[10][1] - hand[1][1])
       + (hand[10][2] - hand[1][2]) * (hand[10][2] - hand[1][2])

\* a result of 42 finite values that starts with the wrist at (0.0, 0.0)
WellFormed(values) ==
    /\ Len(values) = 42
    /\ \A i \in 1..Len(values) : values[i][3] > 0
    /\ values[1] = << 0, 0, 1 >>
    /\ values[2] = << 0, 0, 1 >>

\* C13: for every hand, also one whose wrist-to-MCP distance is below the
\* floor, down to all 21 landmarks on one point, normalize_landmarks
\* returns 42 values, none of them the result of a division by zero, and
\* the first two are (0.0, 0.0).
C13_NormalizeTotal ==
    fpc = "done" => WellFormed(res_norm) /\ WellFormed(res_norm_moved)

\* a hand with landmark 9 on the wrist and another landmark away from it
C13_Witness ==
    /\ fpc = "done"
    /\ WristToMcpSq(arg_hand) = 0
    /\ \E i \in 1..Len(res_norm) : res_norm[i][1] # 0
    /\ WellFormed(res_norm)

\* C14 as the spec states it: for every hand, every factor and every shift,
\* the enlarged and moved hand has the same normalized values as the hand.
C14_InvariantForEveryHand ==
    fpc = "done" => res_norm_moved = res_norm

\* C14, amended: the same for the hands whose wrist-to-MCP distance is not
\* below the scale floor (on this grid: is not 0; an enlarged hand then is
\* not below it either).
C14_InvariantAboveFloor ==
    (fpc = "done" /\ WristToMcpSq(arg_hand) # 0) => res_norm_moved = res_norm

\* a hand above the floor was enlarged and moved
C14_Witness ==
    /\ fpc = "done"
    /\ WristToMcpSq(arg_hand) # 0
    /\ arg_factor > 1
    /\ arg_shift # << 0, 0 >>
    /\ res_norm_moved = res_norm
    /\ \E i \in 1..Len(res_norm) : res_norm[i][1] # 0

(***************************************************************************)
(* Further properties of the collection loop, checked under Spec.          *)
(***************************************************************************)
\* C16: a step writes a row exactly when it counts a labelled sample, one
\* row per sample, behind the rows the file already holds (those of an
\* earlier session included), which stay as they are.  A confirmation
\* writes the pending snapshot and ends the pending state, so it writes it
\* once: a confirmation key with nothing pending writes nothing.
C16_DatasetAppendOnly ==
    [][LET written == (heart_count' + not_heart_count')
                         - (heart_count + not_heart_count)
       IN  /\ written \in { 0, 1 }
           /\ Len(dataset') = Len(dataset) + written
           /\ SubSeq(dataset', 1, Len(dataset)) = dataset
           /\ \A label \in { 0, 1 } :
                 (KeyStep /\ key' \in ConfirmKeys(label)) =>
                    IF pending_sample
                    THEN /\ dataset' = Append(dataset, Row(captured_features, label))
                         /\ ~pending_sample'
                    ELSE dataset' = dataset]_vars

\* a confirmed sample stands behind the row of an earlier session
C16_Witness ==
    /\ Len(dataset) = 2
    /\ dataset[1] = Row(FrameFeatures[3], 0)
    /\ key \in ConfirmKeys(1)
    /\ auto_sample_status = << "saved", 1 >>
    /\ dataset[2] = Row(FrameFeatures[4], 1)

\* C18: when the camera cannot be opened and when a frame cannot be read,
\* the loop has ended (no frame is processed from the exit state) and the
\* capture has been released; the same holds of the inference loop once it
\* has tried to open its camera.
C18_InputFailureReleasesCapture ==
    /\ pc = "exit" => cap = "released"
    /\ (dpc = "exit" /\ detector = "created") => dcap = "released"

(***************************************************************************)
(* Further properties of the inference loop, checked under SpecDetect.     *)
(***************************************************************************)
\* C17: when the classifier file or the scaler file is missing, the run has
\* ended once it has started, with no detector created, no camera opened
\* and no frame processed; and whatever has created the detector, opened
\* the camera, reached the frame loop or averaged a prediction holds both
\* the classifier and the scaler.
C17_NoRunWithoutBothArtifacts ==
    /\ (dpc # "start" /\ ~(model_file /\ scaler_file)) =>
          /\ dpc = "exit"
          /\ model = "None" /\ scaler = "None"
          /\ detector = "none"
          /\ dcap = "unopened"
          /\ prediction_buffer = << >> /\ avg_probability = << 0, 0 >>
          /\ since_gap = << >>
    /\ (dpc = "frame" \/ detector = "created" \/ dcap # "unopened"
           \/ avg_probability[2] > 0) =>
          model = "loaded" /\ scaler = "loaded"

\* the classifier file is there and the scaler file is not
C17_Witness ==
    /\ dpc = "exit"
    /\ model_file /\ ~scaler_file
    /\ detector = "none"
    /\ dcap = "unopened"

(***************************************************************************)
(* Latency of the decision, checked under SpecLatency.                     *)
(***************************************************************************)
\* C20: when each of the last 10 two-hand frames in a row had a probability
\* of at least 0.80, the decision is heart, and when each had a probability
\* below 0.80, the decision is not heart, whatever came before them.
C20_DecisionWithinTenFrames ==
    Len(since_gap) >= 10 =>
       LET last == LastN(since_gap, 10)
       IN  /\ (\A i \in 1..10 : last[i] >= 80) =>
                 is_heart /\ display_text = "HEART <3"
           /\ (\A i \in 1..10 : last[i] < 80) =>
                 ~is_heart /\ display_text = "NO HEART"

\* ten frames at exactly 0.80 follow a frame below it
C20_Witness ==
    /\ Len(since_gap) = 11
    /\ since_gap[1] = 79
    /\ \A i \in 2..11 : since_gap[i] = 80
    /\ is_heart
    /\ display_text = "HEART <3"


\* C21: at the first two-hand frame of the session and at the first
\* two-hand frame after a gap the window holds that frame's probability and
\* nothing else, and the decision of the frame is the threshold test
\* p >= 0.80 on it.
C21_NoWarmUp ==
    Len(since_gap) = 1 =>
       /\ prediction_buffer = << since_gap[1] >>
       /\ is_heart = (since_gap[1] >= 80)
       /\ display_text = IF since_gap[1] >= 80 THEN "HEART <3" ELSE "NO HEART"

\* a window that decided heart was cleared by a gap, and the first frame
\* after it decides on its own probability, which is below the threshold
C21_Witness ==
    /\ heart_before_gap
    /\ since_gap = << 79 >>
    /\ prediction_buffer = << 79 >>
    /\ ~is_heart
    /\ display_text = "NO HEART"


(***************************************************************************)
(* Properties of the collection loop's states and of its exit, checked     *)
(* under Spec.                                                             *)
(***************************************************************************)
\* C22: before and after every step of the collection loop a sample is
\* pending exactly when captured_features is not None; and one iteration
\* handles one key, so the frame part of an iteration writes no row and the
\* key part writes at most one.
C22_PendingIffSnapshot ==
    [][/\ pending_sample <=> captured_features # None
       /\ pending_sample' <=> captured_features' # None
       /\ FrameStep => dataset' = dataset
       /\ KeyStep => \/ dataset' = dataset
                     \/ \E label \in { 0, 1 } :
                           \/ dataset' = Append(dataset, Row(features, label))
                           \/ dataset' = Append(dataset, Row(captured_features, label))
       /\ KeyStep => pc' \in { "frame", "exit" }]_vars

\* between two frames, with a sample pending, after an iteration whose key
\* was H: the one row of that iteration is the immediate one, and the
\* pending snapshot is still there
C22_Witness ==
    /\ pc = "frame"
    /\ pending_sample
    /\ captured_features # None
    /\ key \in LabelKeys(1)
    /\ heart_count = 1
    /\ dataset # << >>
    /\ dataset[Len(dataset)] = Row(features, 1)


\* C23: the key step that handles Q ends the loop in whatever capture state
\* it finds, writes no row and counts no sample, so a pending snapshot is
\* dropped and the rows of the file stay as they were; and the loop takes
\* no step once it has ended.
C23_QuitEndsLoopAndDiscards ==
    [][/\ pc # "exit"
       /\ (KeyStep /\ key' \in { "q", "Q" }) =>
             /\ pc' = "exit"
             /\ cap' = "released"
             /\ dataset' = dataset
             /\ heart_count' = heart_count
             /\ not_heart_count' = not_heart_count]_vars

\* the loop was left with a sample pending, after a row had been written
C23_Witness ==
    /\ pc = "exit"
    /\ key \in { "q", "Q" }
    /\ cap = "released"
    /\ pending_sample
    /\ captured_features # None
    /\ heart_count + not_heart_count = 1
    /\ Len(dataset) = 2
    /\ dataset[1] = Row(FrameFeatures[3], 0)

====
